---- MODULE Spec2Model ----
(***************************************************************************)
(* Customer_App.py: a Streamlit chat page over a cached LlamaIndex query   *)
(* engine.  One process serves several browser sessions; every page load   *)
(* or widget interaction of a session runs the script from line 1 to the   *)
(* end (or to an uncaught exception, or until the runtime stops it at a    *)
(* st.* call because the session asked for a rerun).                       *)
(*                                                                         *)
(* Process-wide state: the secret store, the environment, the              *)
(* st.cache_resource entry of load_query_engine and its compute lock.      *)
(* Per-session state: st.session_state (the "messages" list), and the      *)
(* locals of the script run in progress.                                   *)
(***************************************************************************)
EXTENDS Naturals, Sequences, FiniteSets, TLC

VARIABLES
    secrets,        \* .streamlit/secrets.toml as st.secrets sees it
    environ,        \* os.environ["GROQ_API_KEY"] before load_dotenv()
    dotenv,         \* the GROQ_API_KEY line of the local .env file
    cache,          \* st.cache_resource entry of load_query_engine
    lock,           \* holder of the cache's compute lock (0: free)
    buildsStarted,  \* times the body of load_query_engine was entered
    buildsCompleted,\* times it returned an engine
    buildFailures,  \* times it raised
    pc,             \* per session: position of its script run
    sid,            \* per session: 'session_id' in st.query_params, this run
    prompt,         \* per session: value of st.chat_input, this run
    GROQ_API_KEY,   \* per session: the credential resolved by this run
    shown,          \* per session: blocking notice rendered by this run
    status,         \* per session: how the latest run stands or ended
    ran,            \* per session: downstream steps executed by this run
    query_engine,   \* per session: local query_engine of this run
    building,       \* per session: parts built so far inside load_query_engine
    inState,        \* per session: "messages" in st.session_state
    messages,       \* per session: st.session_state.messages
    full_response,  \* per session: local accumulation buffer
    yielded,        \* per session: fragments response_gen has yielded so far
    completed,      \* per session: turns whose assistant message was appended
    failed,         \* per session: turns submitted and never completed
    displayed,      \* per session: transcript rendered by lines 76-78, this run
    reloaded        \* per session: this run follows one stopped after its query

procVars == <<secrets, environ, dotenv>>
cacheVars == <<cache, lock, buildsStarted, buildsCompleted, buildFailures>>
runVars == <<pc, sid, prompt, GROQ_API_KEY, shown, status, ran>>
engineVars == <<query_engine, building>>
chatVars == <<inState, messages, full_response, yielded, completed, failed>>
pageVars == <<displayed, reloaded>>
vars == <<procVars, cacheVars, runVars, engineVars, chatVars, pageVars>>

(***************************************************************************)
(* Bounds of the model.                                                    *)
(***************************************************************************)
NumSessions == 2        \* concurrent sessions of the process
MaxTurns == 2           \* prompts a session submits, single-session scenario
MaxFrags == 2           \* fragments one response stream yields at most
MaxBuildFailures == 1   \* builds that raise

Sessions == 1 .. NumSessions

(***************************************************************************)
(* Python values.  An optional string: None, or a str (possibly empty).    *)
(***************************************************************************)
None == [set |-> FALSE, val |-> ""]
Str(v) == [set |-> TRUE, val |-> v]

\* bool(x) of None or a str, as used by `not GROQ_API_KEY` and `if prompt :=`
Truthy(x) == x.set /\ x.val # ""

(***************************************************************************)
(* Credential resolution, lines 10-18.                                     *)
(***************************************************************************)
\* the secret store: no secrets file, a file without the key, or a value
NoSecretsFile == [file |-> FALSE, key |-> None]
NoSecretsKey == [file |-> TRUE, key |-> None]
SecretsValue(v) == [file |-> TRUE, key |-> Str(v)]

\* load_dotenv(): a variable already in the environment is not overridden
load_dotenv(env, file) == IF env.set THEN env ELSE file

\* st.secrets["GROQ_API_KEY"]: the value, or the exception it raises
SecretsGetItem(store) ==
    IF ~store.file THEN [exc |-> "FileNotFoundError", val |-> None]
    ELSE IF ~store.key.set THEN [exc |-> "KeyError", val |-> None]
    ELSE [exc |-> "none", val |-> store.key]

\* os.getenv("GROQ_API_KEY"): the value, or None
getenv(env) == env

\* exceptions the except clause of line 17 catches
OnlyKeyErrorCaught == {"KeyError"}
Caught == {"KeyError", "FileNotFoundError"}

\* a resolution that looks at the environment first
ResolveEnvFirst(store, env, file) ==
    LET got == SecretsGetItem(store)
        e == getenv(load_dotenv(env, file))
    IN  IF e.set THEN [exc |-> "none", val |-> e]
        ELSE IF got.exc = "none" THEN got
        ELSE [exc |-> "none", val |-> None]

\* lines 10-18: the value bound to GROQ_API_KEY, or the exception that escapes
Resolve(store, env, file) ==
    LET got == SecretsGetItem(store)
    IN  IF got.exc = "none" THEN got
        ELSE IF got.exc \in Caught
             THEN [exc |-> "none", val |-> getenv(load_dotenv(env, file))]
             ELSE [exc |-> got.exc, val |-> None]

(***************************************************************************)
(* The gate, lines 60-67.                                                  *)
(***************************************************************************)
\* a gate that looks at the query parameters before the credential
GateSessionFirst(key, hasSid) ==
    IF ~hasSid THEN "warning"
    ELSE IF ~Truthy(key) THEN "error"
    ELSE "allowed"

\* a gate that never looks at the query parameters
GateKeyOnly(key, hasSid) ==
    IF ~Truthy(key) THEN "error" ELSE "allowed"

\* "error": st.error of line 61; "warning": st.warning of line 66
Gate(key, hasSid) ==
    IF ~Truthy(key) THEN "error"
    ELSE IF ~hasSid THEN "warning"
    ELSE "allowed"

(***************************************************************************)
(* Scenarios: the sessions that act and the inputs the environment may     *)
(* supply (secret store, environment, query parameters, chat input, the    *)
(* fragment sequences the engine may yield, how many prompts a session     *)
(* submits, how many builds may raise).  Conc and Cred give each session   *)
(* one prompt and one possible fragment; Turn gives its session MaxTurns   *)
(* prompts and every fragment sequence up to MaxFrags.                     *)
(***************************************************************************)
Fragments == {"Hel", "lo"}

RECURSIVE SeqsUpTo(_, _)
SeqsUpTo(S, n) ==
    IF n = 0 THEN {<<>>}
    ELSE LET T == SeqsUpTo(S, n - 1)
         IN  T \cup {Append(t, x) : t \in {u \in T : Len(u) = n - 1}, x \in S}

Conc ==
    [sessions |-> Sessions,
     stores   |-> {NoSecretsFile, SecretsValue("sk")},
     environs |-> {None},
     dotenvs  |-> {None},
     params   |-> BOOLEAN,
     inputs   |-> {None, Str("hi")},
     streams  |-> {<<>>, <<"ok">>},
     turns    |-> 1,
     failures |-> MaxBuildFailures]

Turn ==
    [sessions |-> {1},
     stores   |-> {NoSecretsFile, SecretsValue("sk")},
     environs |-> {None},
     dotenvs  |-> {None},
     params   |-> BOOLEAN,
     inputs   |-> {None, Str(""), Str("hi")},
     streams  |-> SeqsUpTo(Fragments, MaxFrags),
     turns    |-> MaxTurns,
     failures |-> MaxBuildFailures]

Cred ==
    [sessions |-> {1},
     stores   |-> {NoSecretsFile, NoSecretsKey, SecretsValue(""), SecretsValue("sk")},
     environs |-> {None, Str(""), Str("ek")},
     dotenvs  |-> {None, Str("dk")},
     params   |-> BOOLEAN,
     inputs   |-> {None, Str("hi")},
     streams  |-> {<<>>, <<"ok">>},
     turns    |-> 1,
     failures |-> MaxBuildFailures]

(***************************************************************************)
(* Initial state: the process has started, no session has loaded the page. *)
(***************************************************************************)
NoEngine == [id |-> 0, parts |-> {}]

InitE(E) ==
    /\ secrets \in E.stores
    /\ environ \in E.environs
    /\ dotenv \in E.dotenvs
    /\ cache = NoEngine
    /\ lock = 0
    /\ buildsStarted = 0
    /\ buildsCompleted = 0
    /\ buildFailures = 0
    /\ pc = [s \in Sessions |-> "idle"]
    /\ sid = [s \in Sessions |-> FALSE]
    /\ prompt = [s \in Sessions |-> None]
    /\ GROQ_API_KEY = [s \in Sessions |-> None]
    /\ shown = [s \in Sessions |-> "none"]
    /\ status = [s \in Sessions |-> "unloaded"]
    /\ ran = [s \in Sessions |-> {}]
    /\ query_engine = [s \in Sessions |-> NoEngine]
    /\ building = [s \in Sessions |-> {}]
    /\ inState = [s \in Sessions |-> FALSE]
    /\ messages = [s \in Sessions |-> <<>>]
    /\ full_response = [s \in Sessions |-> ""]
    /\ yielded = [s \in Sessions |-> <<>>]
    /\ completed = [s \in Sessions |-> 0]
    /\ failed = [s \in Sessions |-> 0]
    /\ displayed = [s \in Sessions |-> <<>>]
    /\ reloaded = [s \in Sessions |-> FALSE]

(***************************************************************************)
(* A script run starts: lines 10-67.  The session's query parameters and   *)
(* chat input are those of this run.  The locals of the previous run are   *)
(* gone.                                                                   *)
(***************************************************************************)
Load(s, E) ==
    /\ pc[s] = "idle"
    /\ \E q \in E.params, p \in E.inputs :
         LET r == Resolve(secrets, environ, dotenv)
             g == IF r.exc = "none" THEN Gate(r.val, q) ELSE "raised"
         IN  /\ Truthy(p) => completed[s] + failed[s] < E.turns
             /\ sid' = [sid EXCEPT ![s] = q]
             /\ GROQ_API_KEY' = [GROQ_API_KEY EXCEPT ![s] = r.val]
             /\ prompt' = [prompt EXCEPT ![s] = IF g = "allowed" THEN p ELSE None]
             /\ shown' = [shown EXCEPT ![s] = IF g \in {"error", "warning"} THEN g ELSE "none"]
             /\ status' = [status EXCEPT ![s] =
                    IF g = "allowed" THEN "running"
                    ELSE IF g = "raised" THEN "raised" ELSE "done"]
             /\ pc' = [pc EXCEPT ![s] = IF g = "allowed" THEN "lookup" ELSE "idle"]
    /\ ran' = [ran EXCEPT ![s] = {}]
    /\ query_engine' = [query_engine EXCEPT ![s] = NoEngine]
    /\ full_response' = [full_response EXCEPT ![s] = ""]
    /\ yielded' = [yielded EXCEPT ![s] = <<>>]
    /\ displayed' = [displayed EXCEPT ![s] = <<>>]
    /\ reloaded' = [reloaded EXCEPT ![s] = status[s] = "stopped" /\ "query" \in ran[s]]
    /\ UNCHANGED <<procVars, cacheVars, building, inState, messages, completed, failed>>

(***************************************************************************)
(* load_query_engine under @st.cache_resource, lines 36-56 and 69.         *)
(* The decorator looks the entry up; on a miss it takes the cache's        *)
(* compute lock, looks again, and only then runs the body; the value is    *)
(* stored when the body returns, and an exception of the body leaves the   *)
(* cache as it was and propagates to the caller.                           *)
(***************************************************************************)
Parts == {"documents", "llm", "index", "query_engine"}

Did(s, step) == ran' = [ran EXCEPT ![s] = @ \cup {step}]

\* line 69, the call: a hit returns the cached engine, a miss goes for the lock
CallLoadQueryEngine(s) ==
    /\ pc[s] = "lookup"
    /\ IF cache.id # 0
       THEN /\ query_engine' = [query_engine EXCEPT ![s] = cache]
            /\ pc' = [pc EXCEPT ![s] = "render"]
            /\ ran' = [ran EXCEPT ![s] = @ \cup {"load_query_engine"}]
       ELSE /\ pc' = [pc EXCEPT ![s] = "acquire"]
            /\ ran' = [ran EXCEPT ![s] = @ \cup {"load_query_engine", "miss"}]
            /\ UNCHANGED query_engine
    /\ UNCHANGED <<pageVars, procVars, cacheVars, sid, prompt, GROQ_API_KEY, shown, status,
                   building, chatVars>>

\* a miss handled with no second look under the lock: the body always runs
AcquireNoRecheck(s) ==
    /\ pc[s] = "acquire"
    /\ lock = 0
    /\ lock' = s
    /\ buildsStarted' = buildsStarted + 1
    /\ building' = [building EXCEPT ![s] = {}]
    /\ pc' = [pc EXCEPT ![s] = "documents"]
    /\ UNCHANGED <<pageVars, procVars, cache, buildsCompleted, buildFailures, sid, prompt,
                   GROQ_API_KEY, shown, status, ran, query_engine, chatVars>>

\* the miss path: take the compute lock, look again, enter the body on a miss
Acquire(s) ==
    /\ pc[s] = "acquire"
    /\ lock = 0
    /\ IF cache.id # 0
       THEN /\ query_engine' = [query_engine EXCEPT ![s] = cache]
            /\ pc' = [pc EXCEPT ![s] = "render"]
            /\ UNCHANGED <<lock, buildsStarted, building>>
       ELSE /\ lock' = s
            /\ buildsStarted' = buildsStarted + 1
            /\ building' = [building EXCEPT ![s] = {}]
            /\ pc' = [pc EXCEPT ![s] = "documents"]
            /\ UNCHANGED query_engine
    /\ UNCHANGED <<pageVars, procVars, cache, buildsCompleted, buildFailures, sid, prompt,
                   GROQ_API_KEY, shown, status, ran, chatVars>>

\* one step of the body that returned: the part is built, on to the next line
Built(s, part, next) ==
    /\ building' = [building EXCEPT ![s] = @ \cup {part}]
    /\ pc' = [pc EXCEPT ![s] = next]
    /\ UNCHANGED <<pageVars, procVars, cacheVars, sid, prompt, GROQ_API_KEY, shown, status,
                   ran, query_engine, chatVars>>

\* line 40: SimpleDirectoryReader(DATA_PATH).load_data()
LoadDocuments(s) == pc[s] = "documents" /\ Built(s, "documents", "llm")

\* lines 43-50: ChatGroq(api_key=GROQ_API_KEY, ...), Settings.llm
ConfigureLLM(s) == pc[s] = "llm" /\ Built(s, "llm", "index")

\* line 53: VectorStoreIndex.from_documents(documents)
BuildIndex(s) == pc[s] = "index" /\ Built(s, "index", "engine")

\* a failed build that leaves what it had built so far as the cache entry
BuildRaisesPoisoning(s, E) ==
    /\ pc[s] \in {"documents", "index"}
    /\ buildFailures < E.failures
    /\ buildFailures' = buildFailures + 1
    /\ cache' = [id |-> buildsStarted, parts |-> building[s]]
    /\ lock' = 0
    /\ building' = [building EXCEPT ![s] = {}]
    /\ status' = [status EXCEPT ![s] = "raised"]
    /\ pc' = [pc EXCEPT ![s] = "idle"]
    /\ UNCHANGED <<pageVars, procVars, buildsStarted, buildsCompleted, sid, prompt,
                   GROQ_API_KEY, shown, ran, query_engine, chatVars>>

\* line 40 or line 53 raises: nothing is stored, the lock is released, the
\* exception leaves load_query_engine and ends the script run at line 69
BuildRaises(s, E) ==
    /\ pc[s] \in {"documents", "index"}
    /\ buildFailures < E.failures
    /\ buildFailures' = buildFailures + 1
    /\ lock' = 0
    /\ building' = [building EXCEPT ![s] = {}]
    /\ status' = [status EXCEPT ![s] = "raised"]
    /\ pc' = [pc EXCEPT ![s] = "idle"]
    /\ UNCHANGED <<pageVars, procVars, cache, buildsStarted, buildsCompleted, sid, prompt,
                   GROQ_API_KEY, shown, ran, query_engine, chatVars>>

\* line 56: the engine is returned, stored in the cache, the lock released
ReturnEngine(s) ==
    /\ pc[s] = "engine"
    /\ LET e == [id |-> buildsStarted, parts |-> building[s] \cup {"query_engine"}]
       IN  /\ cache' = e
           /\ query_engine' = [query_engine EXCEPT ![s] = e]
    /\ lock' = 0
    /\ buildsCompleted' = buildsCompleted + 1
    /\ building' = [building EXCEPT ![s] = {}]
    /\ pc' = [pc EXCEPT ![s] = "render"]
    /\ UNCHANGED <<pageVars, procVars, buildsStarted, buildFailures, sid, prompt,
                   GROQ_API_KEY, shown, status, ran, chatVars>>

(***************************************************************************)
(* The chat page, lines 72-101.                                            *)
(***************************************************************************)
Greeting ==
    [role |-> "assistant",
     content |-> "Hello! How can I assist you today based on our knowledge base?"]

UserTurn(text) == [role |-> "user", content |-> text]
AssistantTurn(text) == [role |-> "assistant", content |-> text]

\* an initialization that creates the list without the greeting
SeededEmpty(s) == IF inState[s] THEN messages[s] ELSE <<>>

\* an initialization without the guard of line 72: the list is reset on every run
SeededAlways(s) == <<Greeting>>

\* lines 72-73: the list after the initialization of the session state
Seeded(s) == IF inState[s] THEN messages[s] ELSE <<Greeting>>

\* lines 72-81 with no text submitted: the transcript is shown, the run ends
RenderIdle(s) ==
    /\ pc[s] = "render"
    /\ ~Truthy(prompt[s])
    /\ inState' = [inState EXCEPT ![s] = TRUE]
    /\ displayed' = [displayed EXCEPT ![s] = Seeded(s)]
    /\ messages' = [messages EXCEPT ![s] = Seeded(s)]
    /\ ran' = [ran EXCEPT ![s] = @ \cup (IF inState[s] THEN {} ELSE {"messages"})]
    /\ status' = [status EXCEPT ![s] = "done"]
    /\ pc' = [pc EXCEPT ![s] = "idle"]
    /\ UNCHANGED <<reloaded, procVars, cacheVars, sid, prompt, GROQ_API_KEY, shown,
                   engineVars, full_response, yielded, completed, failed>>

\* a submission that queries first and leaves the list as it was
SubmitNoAppend(s) ==
    /\ pc[s] = "render"
    /\ Truthy(prompt[s])
    /\ inState' = [inState EXCEPT ![s] = TRUE]
    /\ displayed' = [displayed EXCEPT ![s] = Seeded(s)]
    /\ messages' = [messages EXCEPT ![s] = Seeded(s)]
    /\ Did(s, "messages")
    /\ failed' = [failed EXCEPT ![s] = @ + 1]
    /\ pc' = [pc EXCEPT ![s] = "query"]
    /\ UNCHANGED <<reloaded, procVars, cacheVars, sid, prompt, GROQ_API_KEY, shown, status,
                   engineVars, full_response, yielded, completed>>

\* a submission guarded by `prompt is not None`: empty text starts a turn
SubmitAnyInput(s) ==
    /\ pc[s] = "render"
    /\ prompt[s].set
    /\ inState' = [inState EXCEPT ![s] = TRUE]
    /\ displayed' = [displayed EXCEPT ![s] = Seeded(s)]
    /\ messages' = [messages EXCEPT ![s] = Append(Seeded(s), UserTurn(prompt[s].val))]
    /\ Did(s, "messages")
    /\ failed' = [failed EXCEPT ![s] = @ + 1]
    /\ pc' = [pc EXCEPT ![s] = "query"]
    /\ UNCHANGED <<reloaded, procVars, cacheVars, sid, prompt, GROQ_API_KEY, shown, status,
                   engineVars, full_response, yielded, completed>>

\* lines 72-85 with text submitted: the user's turn is appended and echoed
Submit(s) ==
    /\ pc[s] = "render"
    /\ Truthy(prompt[s])
    /\ inState' = [inState EXCEPT ![s] = TRUE]
    /\ displayed' = [displayed EXCEPT ![s] = Seeded(s)]
    /\ messages' = [messages EXCEPT ![s] = Append(Seeded(s), UserTurn(prompt[s].val))]
    /\ Did(s, "messages")
    /\ failed' = [failed EXCEPT ![s] = @ + 1]
    /\ pc' = [pc EXCEPT ![s] = "query"]
    /\ UNCHANGED <<reloaded, procVars, cacheVars, sid, prompt, GROQ_API_KEY, shown, status,
                   engineVars, full_response, yielded, completed>>

\* lines 91-95: query_engine.query(prompt) returns a streaming response
Query(s) ==
    /\ pc[s] = "query"
    /\ Did(s, "query")
    /\ full_response' = [full_response EXCEPT ![s] = ""]
    /\ yielded' = [yielded EXCEPT ![s] = <<>>]
    /\ pc' = [pc EXCEPT ![s] = "stream"]
    /\ UNCHANGED <<pageVars, procVars, cacheVars, sid, prompt, GROQ_API_KEY, shown, status,
                   engineVars, inState, messages, completed, failed>>

\* a failure that stores the buffer accumulated so far as an assistant turn
RaisedKeepingPartial(s) ==
    /\ messages' = [messages EXCEPT ![s] = Append(@, AssistantTurn(full_response[s]))]
    /\ status' = [status EXCEPT ![s] = "raised"]
    /\ pc' = [pc EXCEPT ![s] = "idle"]
    /\ UNCHANGED <<pageVars, procVars, cacheVars, sid, prompt, GROQ_API_KEY, shown,
                   engineVars, inState, full_response, yielded, completed, failed>>

\* the run ends on an exception of the engine; the buffer is a local of the run
Raised(s) ==
    /\ status' = [status EXCEPT ![s] = "raised"]
    /\ pc' = [pc EXCEPT ![s] = "idle"]
    /\ UNCHANGED <<pageVars, procVars, cacheVars, sid, prompt, GROQ_API_KEY, shown,
                   engineVars, inState, messages, full_response, yielded,
                   completed, failed>>

\* line 91 raises
QueryRaises(s) ==
    /\ pc[s] = "query"
    /\ Did(s, "query")
    /\ Raised(s)

\* the fragments that occur in a set of fragment sequences
FragmentsOf(Y) == UNION {{y[i] : i \in 1 .. Len(y)} : y \in Y}

\* an accumulation that puts the new fragment in front
AccumulateInFront(buffer, text) == text \o buffer

\* line 97: full_response += text
Accumulate(buffer, text) == buffer \o text

\* a loop that also stores the buffer in the list after every fragment
FragmentStoring(s, E) ==
    /\ pc[s] = "stream"
    /\ \E text \in FragmentsOf(E.streams) :
         /\ Append(yielded[s], text) \in E.streams
         /\ yielded' = [yielded EXCEPT ![s] = Append(@, text)]
         /\ full_response' = [full_response EXCEPT ![s] = Accumulate(@, text)]
         /\ messages' = [messages EXCEPT ![s] =
                Append(@, AssistantTurn(Accumulate(full_response[s], text)))]
    /\ UNCHANGED <<pageVars, procVars, cacheVars, runVars, engineVars, inState,
                   completed, failed>>

\* lines 96-98: response_gen yields one more fragment
Fragment(s, E) ==
    /\ pc[s] = "stream"
    /\ \E text \in FragmentsOf(E.streams) :
         /\ Append(yielded[s], text) \in E.streams
         /\ yielded' = [yielded EXCEPT ![s] = Append(@, text)]
         /\ full_response' = [full_response EXCEPT ![s] = Accumulate(@, text)]
    /\ UNCHANGED <<pageVars, procVars, cacheVars, runVars, engineVars, inState, messages,
                   completed, failed>>

\* line 96 raises: response_gen fails after the fragments yielded so far
StreamRaises(s) ==
    /\ pc[s] = "stream"
    /\ UNCHANGED ran
    /\ Raised(s)

\* a stop that stores the buffer accumulated so far as an assistant turn
StoppedKeepingPartial(s) ==
    /\ pc[s] \in {"query", "stream"}
    /\ messages' = [messages EXCEPT ![s] = Append(@, AssistantTurn(full_response[s]))]
    /\ status' = [status EXCEPT ![s] = "stopped"]
    /\ pc' = [pc EXCEPT ![s] = "idle"]
    /\ UNCHANGED <<pageVars, procVars, cacheVars, sid, prompt, GROQ_API_KEY, shown, ran,
                   engineVars, inState, full_response, yielded, completed, failed>>

\* the session reloads or reruns: the runtime stops the run at a st.* call
\* (lines 84-89, 94, 98); line 101 is never reached
Stopped(s) ==
    /\ pc[s] \in {"query", "stream"}
    /\ status' = [status EXCEPT ![s] = "stopped"]
    /\ pc' = [pc EXCEPT ![s] = "idle"]
    /\ UNCHANGED <<pageVars, procVars, cacheVars, sid, prompt, GROQ_API_KEY, shown, ran,
                   engineVars, chatVars>>

\* a commit that appends the turn twice
CommitTwice(s) ==
    /\ pc[s] = "stream"
    /\ messages' = [messages EXCEPT ![s] =
           Append(Append(@, AssistantTurn(full_response[s])), AssistantTurn(full_response[s]))]
    /\ completed' = [completed EXCEPT ![s] = @ + 1]
    /\ failed' = [failed EXCEPT ![s] = @ - 1]
    /\ status' = [status EXCEPT ![s] = "done"]
    /\ pc' = [pc EXCEPT ![s] = "idle"]
    /\ UNCHANGED <<pageVars, procVars, cacheVars, sid, prompt, GROQ_API_KEY, shown, ran,
                   engineVars, inState, full_response, yielded>>

\* an end of the loop that returns to the page without line 101
CommitSkipped(s) ==
    /\ pc[s] = "stream"
    /\ completed' = [completed EXCEPT ![s] = @ + 1]
    /\ failed' = [failed EXCEPT ![s] = @ - 1]
    /\ status' = [status EXCEPT ![s] = "done"]
    /\ pc' = [pc EXCEPT ![s] = "idle"]
    /\ UNCHANGED <<pageVars, procVars, cacheVars, sid, prompt, GROQ_API_KEY, shown, ran,
                   engineVars, inState, messages, full_response, yielded>>

\* a commit into one list kept for the whole process, not per session
CommitShared(s) ==
    /\ pc[s] = "stream"
    /\ messages' = [t \in Sessions |->
           IF inState[t] THEN Append(messages[t], AssistantTurn(full_response[s]))
           ELSE messages[t]]
    /\ completed' = [completed EXCEPT ![s] = @ + 1]
    /\ failed' = [failed EXCEPT ![s] = @ - 1]
    /\ status' = [status EXCEPT ![s] = "done"]
    /\ pc' = [pc EXCEPT ![s] = "idle"]
    /\ UNCHANGED <<pageVars, procVars, cacheVars, sid, prompt, GROQ_API_KEY, shown, ran,
                   engineVars, inState, full_response, yielded>>

\* lines 96-101: response_gen is exhausted, the assistant's turn is appended
Commit(s) ==
    /\ pc[s] = "stream"
    /\ messages' = [messages EXCEPT ![s] = Append(@, AssistantTurn(full_response[s]))]
    /\ completed' = [completed EXCEPT ![s] = @ + 1]
    /\ failed' = [failed EXCEPT ![s] = @ - 1]
    /\ status' = [status EXCEPT ![s] = "done"]
    /\ pc' = [pc EXCEPT ![s] = "idle"]
    /\ UNCHANGED <<pageVars, procVars, cacheVars, sid, prompt, GROQ_API_KEY, shown, ran,
                   engineVars, inState, full_response, yielded>>

(***************************************************************************)
(* Specifications.                                                         *)
(***************************************************************************)
NextE(E) ==
    \E s \in E.sessions :
        \/ Load(s, E)
        \/ CallLoadQueryEngine(s)
        \/ Acquire(s)
        \/ LoadDocuments(s)
        \/ ConfigureLLM(s)
        \/ BuildIndex(s)
        \/ BuildRaises(s, E)
        \/ ReturnEngine(s)
        \/ RenderIdle(s)
        \/ Submit(s)
        \/ Query(s)
        \/ QueryRaises(s)
        \/ Fragment(s, E)
        \/ StreamRaises(s)
        \/ Stopped(s)
        \/ Commit(s)

\* several sessions of one process, interleaved
Spec == InitE(Conc) /\ [][NextE(Conc)]_vars

\* one session, many turns, every fragment sequence up to MaxFrags
SpecTurn == InitE(Turn) /\ [][NextE(Turn)]_vars

\* one session, every state of the secret store and of the environment
SpecCred == InitE(Cred) /\ [][NextE(Cred)]_vars

\* the steps the script itself takes once a run has started
Progress(s, E) ==
    \/ CallLoadQueryEngine(s)
    \/ Acquire(s)
    \/ LoadDocuments(s)
    \/ ConfigureLLM(s)
    \/ BuildIndex(s)
    \/ ReturnEngine(s)
    \/ RenderIdle(s)
    \/ Submit(s)
    \/ Query(s)
    \/ Fragment(s, E)
    \/ Commit(s)

\* the steps of a process in which no build, query or stream raises
NextLive(E) ==
    \E s \in E.sessions :
        \/ Load(s, E)
        \/ Progress(s, E)
        \/ Stopped(s)

\* one session; nothing raises; a run that can take a step takes one (the
\* script runs to its end unless the runtime stops it); the user is free to
\* load the page, to submit and to reload, or not to
SpecLive ==
    /\ InitE(Turn)
    /\ [][NextLive(Turn)]_vars
    /\ \A s \in Turn.sessions : WF_vars(Progress(s, Turn))

(***************************************************************************)
(* Properties.                                                             *)
(***************************************************************************)
Loaded(s) == status[s] # "unloaded"
Last(m) == m[Len(m)]

RECURSIVE Concat(_)
Concat(fs) == IF fs = <<>> THEN "" ELSE Head(fs) \o Concat(Tail(fs))

\* the environment os.getenv reads, after load_dotenv()
EffectiveEnv == load_dotenv(environ, dotenv)

\* C1: however the calls of load_query_engine by the sessions interleave, the
\* body runs to completion at most once (and is entered at most once when no
\* build raised), every caller that is past the call holds an engine, and
\* all engines held are the one cached instance.
C1_BuiltOnceSharedByAll ==
    /\ buildsCompleted <= 1
    /\ buildFailures = 0 => buildsStarted <= 1
    /\ \A s \in Sessions :
         /\ pc[s] \in {"render", "query", "stream"} => query_engine[s].id # 0
         /\ query_engine[s].id # 0 =>
              /\ buildsCompleted = 1
              /\ query_engine[s] = cache
    /\ \A s, t \in Sessions :
         query_engine[s].id # 0 /\ query_engine[t].id # 0 =>
             query_engine[s] = query_engine[t]

\* every session missed the cache on its lookup, one build ran, all hold its engine
C1_Witness ==
    /\ buildsStarted = 1
    /\ buildsCompleted = 1
    /\ \A s \in Sessions : "miss" \in ran[s] /\ query_engine[s] = cache /\ cache.id # 0

\* C2 as stated: a run without 'session_id' executes no downstream step
\* and shows the access warning, and nothing else.
C2_WarningOnEveryLoadWithoutSessionId ==
    \A s \in Sessions :
        Loaded(s) /\ ~sid[s] =>
            /\ pc[s] = "idle"
            /\ ran[s] = {}
            /\ shown[s] = "warning"

\* C2, amended: a run without 'session_id' executes no downstream step (no
\* call of load_query_engine, no creation or change of the message list, no
\* query) and ends showing one blocking notice: the access warning when the
\* credential is present, the credential error when it is absent.
C2_NothingRunsWithoutSessionId ==
    \A s \in Sessions :
        Loaded(s) /\ ~sid[s] =>
            /\ pc[s] = "idle"
            /\ status[s] = "done"
            /\ ran[s] = {}
            /\ shown[s] = IF Truthy(GROQ_API_KEY[s]) THEN "warning" ELSE "error"

\* a session that was allowed earlier and completed a turn is denied now
C2_Witness ==
    \E s \in Sessions :
        /\ Loaded(s) /\ ~sid[s]
        /\ shown[s] = "warning"
        /\ inState[s] /\ completed[s] >= 1

\* C3: a run whose resolved credential is absent ends, whether or not
\* 'session_id' is present, with the credential error shown (not the access
\* warning), with no downstream step executed, without an exception, and no
\* build of the engine has ever started.
C3_DeniedWithoutCredential ==
    \A s \in Sessions :
        Loaded(s) /\ ~Truthy(GROQ_API_KEY[s]) =>
            /\ pc[s] = "idle"
            /\ status[s] = "done"
            /\ shown[s] = "error"
            /\ ran[s] = {}
            /\ ~inState[s] /\ messages[s] = <<>>
            /\ buildsStarted = 0 /\ cache = NoEngine

\* 'session_id' is present and the run is denied for the credential
C3_Witness ==
    /\ sid[1] /\ Loaded(1)
    /\ ~Truthy(GROQ_API_KEY[1])
    /\ shown[1] = "error"

\* C4 as stated: a non-empty value of the store wins; otherwise the
\* environment's value if one is set; otherwise the credential is absent.
C4_FirstNonEmptySource ==
    \A s \in Sessions :
        Loaded(s) =>
            IF Truthy(secrets.key) THEN GROQ_API_KEY[s] = secrets.key
            ELSE IF EffectiveEnv.set THEN GROQ_API_KEY[s] = EffectiveEnv
            ELSE ~Truthy(GROQ_API_KEY[s])

\* C4, amended: a value the store holds for the key, empty or not, is the
\* resolved credential whatever the environment holds; the environment is
\* consulted only when the store is unconfigured or lacks the key, and its
\* value is the credential if one is set; otherwise the credential is None.
C4_StoreFirstThenEnvironment ==
    \A s \in Sessions :
        Loaded(s) =>
            IF secrets.file /\ secrets.key.set THEN GROQ_API_KEY[s] = secrets.key
            ELSE IF EffectiveEnv.set THEN GROQ_API_KEY[s] = EffectiveEnv
            ELSE GROQ_API_KEY[s] = None

\* store and environment hold different values, the store's is used
C4_Witness ==
    /\ Loaded(1)
    /\ Truthy(secrets.key) /\ Truthy(EffectiveEnv)
    /\ secrets.key # EffectiveEnv
    /\ GROQ_API_KEY[1] = secrets.key

\* C5: when neither the store (unconfigured, key missing, or empty value)
\* nor the environment (unset or empty) provides a value, the resolved
\* credential is absent, no exception ends the run, and the gate shows the
\* credential error.
C5_AbsentWithoutRaising ==
    \A s \in Sessions :
        Loaded(s) /\ ~Truthy(secrets.key) /\ ~Truthy(EffectiveEnv) =>
            /\ ~Truthy(GROQ_API_KEY[s])
            /\ status[s] = "done"
            /\ shown[s] = "error"
            /\ pc[s] = "idle"

\* no secrets file and nothing in the environment
C5_Witness ==
    /\ Loaded(1)
    /\ secrets = NoSecretsFile /\ EffectiveEnv = None
    /\ GROQ_API_KEY[1] = None
    /\ shown[1] = "error"

\* C6: a build that raises ends the caller's run with the exception and
\* stores nothing: the cache holds no engine until a build has completed,
\* any engine cached or held has all four parts, and it is the product of a
\* build entered after every failed one.
C6_FailedBuildNotCached ==
    /\ buildsCompleted = 0 => cache = NoEngine
    /\ cache.id # 0 => cache.parts = Parts /\ cache.id = buildFailures + 1
    /\ lock = 0 => buildsStarted = buildsCompleted + buildFailures
    /\ \A s \in Sessions :
         /\ query_engine[s].id # 0 => query_engine[s].parts = Parts
         /\ status[s] = "raised" /\ ran[s] \subseteq {"load_query_engine", "miss"} =>
              /\ pc[s] = "idle"
              /\ query_engine[s] = NoEngine

\* a build raised, a later call built the engine in full
C6_Witness ==
    /\ buildFailures >= 1
    /\ buildsCompleted = 1
    /\ cache.parts = Parts
    /\ \E s \in Sessions : query_engine[s] = cache

\* C7: after K completed turns and no uncompleted one, the list is the
\* greeting followed by K (user, assistant) pairs: 1 + 2*K messages.
C7_LengthAfterCompletedTurns ==
    \A s \in Sessions :
        inState[s] /\ pc[s] = "idle" /\ failed[s] = 0 =>
            /\ Len(messages[s]) = 1 + 2 * completed[s]
            /\ messages[s][1] = Greeting
            /\ \A k \in 1 .. completed[s] :
                 /\ messages[s][2 * k].role = "user"
                 /\ messages[s][2 * k + 1].role = "assistant"

\* two turns completed, none failed
C7_Witness ==
    /\ pc[1] = "idle" /\ failed[1] = 0
    /\ completed[1] >= 2
    /\ Len(messages[1]) >= 5

\* the latest run of s submitted a prompt and ran to its end
Committed(s) == pc[s] = "idle" /\ status[s] = "done" /\ Truthy(prompt[s])

\* C8: when the stream is exhausted, one assistant turn is appended after
\* the user's turn, and its content is the concatenation, in yield order,
\* of the fragments the stream yielded.
C8_CommitIsConcatenation ==
    \A s \in Sessions :
        Committed(s) =>
            /\ Len(messages[s]) >= 3
            /\ Last(messages[s]) = AssistantTurn(Concat(yielded[s]))
            /\ messages[s][Len(messages[s]) - 1] = UserTurn(prompt[s].val)
            /\ Len(messages[s]) = 1 + 2 * completed[s] + failed[s]

\* the fragments "Hel", "lo" were yielded and "Hello" is committed
C8_Witness ==
    /\ Committed(1)
    /\ yielded[1] = <<"Hel", "lo">>
    /\ Last(messages[1]).content = "Hello"

\* the engine raised in the latest run of s, at the call or mid-stream
QueryFailed(s) == pc[s] = "idle" /\ status[s] = "raised" /\ "query" \in ran[s]

\* C9: after the engine raised, on the call or after any number of
\* fragments, the list ends with the user's turn just submitted and holds
\* no assistant turn for it; and whenever a stream is being consumed, also
\* on a retry, the buffer holds the fragments of that stream and no other.
C9_FailedQueryCommitsNothing ==
    \A s \in Sessions :
        /\ QueryFailed(s) =>
             /\ Last(messages[s]) = UserTurn(prompt[s].val)
             /\ Len(messages[s]) = 1 + 2 * completed[s] + failed[s]
             /\ failed[s] >= 1
        /\ pc[s] = "stream" => full_response[s] = Concat(yielded[s])

\* the stream raised after a fragment, on the retry of a prompt
C9_Witness ==
    /\ QueryFailed(1)
    /\ yielded[1] # <<>> /\ full_response[1] # ""
    /\ failed[1] >= 2
    /\ messages[1][Len(messages[1]) - 1] = Last(messages[1])

\* C10: once the session state is initialized the list is non-empty and
\* starts with the greeting; an assistant turn follows a user turn exactly
\* when that turn completed, and there is one of it; while a turn is in
\* flight, and after it failed or was stopped, the list ends with the
\* user's turn, so no partial response is in the list.
C10_GreetingFirstNoPartialTurn ==
    \A s \in Sessions :
        /\ ~inState[s] => messages[s] = <<>>
        /\ inState[s] =>
             LET m == messages[s]
                 assistants == {i \in 2 .. Len(m) : m[i].role = "assistant"}
             IN  /\ Len(m) >= 1
                 /\ m[1] = Greeting
                 /\ Len(m) = 1 + 2 * completed[s] + failed[s]
                 /\ Cardinality(assistants) = completed[s]
                 /\ \A i \in assistants : m[i - 1].role = "user"
                 /\ pc[s] \in {"query", "stream"} => Last(m).role = "user"
                 /\ status[s] \in {"raised", "stopped"} /\ "messages" \in ran[s] =>
                        Last(m) = UserTurn(prompt[s].val)
                 /\ Committed(s) => Last(m) = AssistantTurn(full_response[s])

\* greeting, a turn that never completed, then a completed turn
C10_Witness ==
    /\ Len(messages[1]) >= 4
    /\ messages[1][1] = Greeting
    /\ messages[1][2].role = "user"
    /\ messages[1][3].role = "user"
    /\ messages[1][4].role = "assistant"

\* C11: the user's turn is appended before the engine is queried: whenever
\* the run is about to query, is consuming the stream of its query, or has
\* ended on an exception of the query, the list ends with the user turn
\* for the prompt of that run.
C11_UserTurnBeforeQuery ==
    \A s \in Sessions :
        (pc[s] \in {"query", "stream"} \/ QueryFailed(s)) =>
            /\ Truthy(prompt[s])
            /\ inState[s]
            /\ Last(messages[s]) = UserTurn(prompt[s].val)

\* a stream is being consumed and the list ends with the user's "hi"
C11_Witness ==
    /\ pc[1] = "stream"
    /\ "query" \in ran[1]
    /\ yielded[1] # <<>>
    /\ Last(messages[1]) = UserTurn("hi")

\* C12: from the query call until the stream is exhausted the list is left
\* alone: the step that issues the query and every step that consumes a
\* fragment leave the session state as it was, and a fragment only extends
\* the buffer, on the right, by the fragment yielded.
C12_StreamingLeavesListAlone ==
    [][\A s \in Sessions :
          pc[s] \in {"query", "stream"} /\ pc'[s] = "stream" =>
              /\ messages'[s] = messages[s]
              /\ inState'[s] = inState[s]
              /\ pc[s] = "stream" =>
                   /\ Len(yielded'[s]) = Len(yielded[s]) + 1
                   /\ full_response'[s] = full_response[s] \o Last(yielded'[s])]_vars

\* two fragments consumed, the list still ends with the user's turn
C12_Witness ==
    /\ pc[1] = "stream"
    /\ Len(yielded[1]) = 2
    /\ full_response[1] = "Hello"
    /\ Len(messages[1]) = 2

\* the latest run of s appended the assistant's turn and returned to idle
TurnCommitted(s) == Committed(s) /\ Last(messages[s]) = AssistantTurn(full_response[s])

\* C13 as stated: when no build, query or stream raises, every turn whose
\* user turn has been appended is eventually committed, the run back at idle.
C13_EverySubmittedTurnCommits ==
    \A s \in Sessions : (pc[s] = "query") ~> TurnCommitted(s)

\* C13, amended: when no build, query or stream raises, every turn whose
\* user turn has been appended is eventually committed, the run back at
\* idle, unless the runtime stops the run first (the session reloads or
\* reruns while the turn is in flight).
C13_SubmittedTurnCommitsUnlessStopped ==
    \A s \in Sessions :
        (pc[s] = "query") ~> (TurnCommitted(s) \/ (pc[s] = "idle" /\ status[s] = "stopped"))

\* a turn was committed after both fragments and the run is back at idle
C13_Witness ==
    /\ TurnCommitted(1)
    /\ completed[1] = 1
    /\ Len(yielded[1]) = 2

\* the run of s was stopped after its query was issued
StoppedMidStream(s) == pc[s] = "idle" /\ status[s] = "stopped" /\ "query" \in ran[s]

\* C14: a run stopped while its response streams leaves the list ending with
\* the user's turn, the buffer not in it; the transcript the following run
\* renders is the list as the stopped run left it: it ends with that user
\* turn and holds no assistant turn for it.
C14_ReloadAbandonsBuffer ==
    \A s \in Sessions :
        /\ StoppedMidStream(s) =>
             /\ Last(messages[s]) = UserTurn(prompt[s].val)
             /\ Len(messages[s]) = 1 + 2 * completed[s] + failed[s]
        /\ reloaded[s] /\ displayed[s] # <<>> =>
             /\ Last(displayed[s]).role = "user"
             /\ Len(displayed[s]) <= Len(messages[s])
             /\ displayed[s] = SubSeq(messages[s], 1, Len(displayed[s]))
             /\ Cardinality({i \in 1 .. Len(displayed[s]) : displayed[s][i].role = "assistant"})
                    = 1 + completed[s] - (IF Committed(s) THEN 1 ELSE 0)

\* the page was reloaded after "Hel" had streamed: the transcript shown is
\* the greeting and the user's turn
C14_Witness ==
    /\ reloaded[1]
    /\ pc[1] = "idle" /\ status[1] = "done"
    /\ displayed[1] = <<Greeting, UserTurn("hi")>>
    /\ messages[1] = displayed[1]

\* a step of a run of s whose chat input is None or empty
StepWithoutInput(s) == pc[s] # "idle" /\ ~Truthy(prompt[s])

\* C15 as stated: a run with no input or with empty input leaves the list
\* unchanged and sends no query.
C15_NoInputLeavesListUnchanged ==
    [][\A s \in Sessions :
          StepWithoutInput(s) =>
              /\ messages'[s] = messages[s]
              /\ pc'[s] \notin {"query", "stream"}
              /\ "query" \notin ran'[s]]_vars

\* C15, amended: a run with no input or with empty input starts no turn and
\* sends no query: it leaves an existing list unchanged, and on the first
\* run of the session past the gate it creates the list with the greeting
\* as its only element.
C15_NoInputStartsNoTurn ==
    [][\A s \in Sessions :
          StepWithoutInput(s) =>
              /\ inState[s] => messages'[s] = messages[s]
              /\ ~inState[s] => messages'[s] \in {<<>>, <<Greeting>>}
              /\ completed'[s] = completed[s] /\ failed'[s] = failed[s]
              /\ pc'[s] \notin {"query", "stream"}
              /\ "query" \notin ran'[s]]_vars

\* after a completed turn, a run with empty input has ended: the list is as it was
C15_Witness ==
    /\ pc[1] = "idle" /\ status[1] = "done"
    /\ prompt[1] = Str("")
    /\ Len(messages[1]) = 3
    /\ displayed[1] = messages[1]
    /\ "query" \notin ran[1]

IsPrefix(a, b) == Len(a) <= Len(b) /\ SubSeq(b, 1, Len(a)) = a

\* C16: the list only grows at its end: every step leaves what the list
\* held as a prefix of what it holds next, the session state once created
\* stays, and the greeting is the first element and is never added again.
C16_AppendOnlySeededOnce ==
    [][\A s \in Sessions :
          /\ IsPrefix(messages[s], messages'[s])
          /\ inState[s] => inState'[s]
          /\ messages'[s] # <<>> => messages'[s][1] = Greeting
          /\ \A i \in 2 .. Len(messages'[s]) : messages'[s][i] # Greeting]_vars

\* a stopped turn, a reload that submits again, a committed turn: one greeting
C16_Witness ==
    /\ reloaded[1]
    /\ completed[1] = 1 /\ failed[1] = 1
    /\ Len(messages[1]) = 4
    /\ Cardinality({i \in 1 .. Len(messages[1]) : messages[1][i] = Greeting}) = 1

\* the step is one of the run of s
StepOf(s) ==
    \/ pc'[s] # pc[s]
    \/ yielded'[s] # yielded[s]
    \/ <<sid[s], prompt[s], shown[s], status[s], ran[s]>>'
           # <<sid[s], prompt[s], shown[s], status[s], ran[s]>>

\* C17: sessions in a turn at the same time hold the same engine, and a
\* step of one session (load, submit, query, fragment, commit, failure,
\* stop) leaves the list, the buffer, the stream position and the
\* transcript of every other session as they were.
C17_SessionsDoNotInterfere ==
    [][\A s, t \in Sessions :
          s # t =>
              /\ pc[s] \in {"query", "stream"} /\ pc[t] \in {"query", "stream"} =>
                     query_engine[s] = query_engine[t] /\ query_engine[s].id # 0
              /\ StepOf(s) =>
                     /\ messages'[t] = messages[t]
                     /\ inState'[t] = inState[t]
                     /\ full_response'[t] = full_response[t]
                     /\ yielded'[t] = yielded[t]
                     /\ displayed'[t] = displayed[t]]_vars

\* two sessions stream at once from the one engine, at different positions
C17_Witness ==
    /\ pc[1] = "stream" /\ pc[2] = "stream"
    /\ query_engine[1] = query_engine[2]
    /\ yielded[1] = <<"ok">> /\ yielded[2] = <<>>
    /\ full_response[1] = "ok" /\ full_response[2] = ""

\* C18: in every state of a session every assistant turn but the greeting
\* comes right after a user turn: no two assistant turns are adjacent, and
\* the assistant turns after the greeting are no more than the user turns.
C18_AssistantFollowsUser ==
    \A s \in Sessions :
        LET m == messages[s]
            roleAt(r) == {i \in 2 .. Len(m) : m[i].role = r}
        IN  /\ \A i \in roleAt("assistant") : m[i - 1].role = "user"
            /\ \A i \in 1 .. Len(m) - 1 :
                 ~(m[i].role = "assistant" /\ m[i + 1].role = "assistant")
            /\ Cardinality(roleAt("assistant")) <= Cardinality(roleAt("user"))
            /\ roleAt("assistant") \cup roleAt("user") = 2 .. Len(m)

\* a prompt whose turn never completed, resubmitted and answered
C18_Witness ==
    /\ TurnCommitted(1)
    /\ failed[1] = 1
    /\ messages[1][2] = messages[1][3]
    /\ Last(messages[1]).content = "lo"

====
